---- MODULE Spec2Model ----
(***************************************************************************)
(* interface-to-zod: the recursive type-tree compiler of the validator     *)
(* library (ZodSchemaInterfaceGenerator.generateZodSchema) and that of the *)
(* generator library (MockInterfaceGenerator.generateMockValue), with      *)
(* their entry points, as a state machine with an explicit call stack, and *)
(* the calls of a compiled generator.  A behaviour is a program that uses  *)
(* one of the two libraries with one options object.                       *)
(*                                                                         *)
(* Texts are sequences of tokens: a property name is the sequence of its   *)
(* characters, a type signature (Type.getText()) the sequence of its       *)
(* lexical tokens.  The emitted code string is kept as the expression tree *)
(* it spells (OutputNode); indentation is carried by `depth` only.         *)
(***************************************************************************)
EXTENDS Integers, Sequences, FiniteSets, TLC

(***************************************************************************)
(* Bounds                                                                  *)
(***************************************************************************)
\* number of entry-point calls in one behaviour
MaxCalls == 2
\* number of outcomes of one call of a compiled generator that the fair
\* random source is followed on
MaxOutcomes == 20

(***************************************************************************)
(* Text helpers                                                            *)
(***************************************************************************)
UpperChars == <<"A","B","C","D","E","F","G","H","I","J","K","L","M",
                "N","O","P","Q","R","S","T","U","V","W","X","Y","Z">>
LowerChars == <<"a","b","c","d","e","f","g","h","i","j","k","l","m",
                "n","o","p","q","r","s","t","u","v","w","x","y","z">>
Digits == {"0","1","2","3","4","5","6","7","8","9"}

\* String.prototype.toLowerCase, one character
LowerChar(c) ==
    IF \E i \in 1..26 : UpperChars[i] = c
    THEN LowerChars[CHOOSE i \in 1..26 : UpperChars[i] = c]
    ELSE c

\* String.prototype.toLowerCase
toLowerCase(s) == [i \in 1..Len(s) |-> LowerChar(s[i])]

\* 0-based index of the first occurrence of pat in s at or after the 0-based
\* position from, or -1 (String.prototype.indexOf / a literal RegExp search)
IndexOf(s, pat, from) ==
    LET hits == {i \in from..(Len(s) - Len(pat)) :
                    SubSeq(s, i + 1, i + Len(pat)) = pat}
    IN IF hits = {} THEN -1 ELSE CHOOSE i \in hits : \A j \in hits : i <= j

\* String.prototype.includes
includes(s, pat) == IndexOf(s, pat, 0) >= 0

\* Array.prototype.includes
ArrayIncludes(arr, x) == \E i \in 1..Len(arr) : arr[i] = x

\* /^__@.+@\d+$/.test(name): the internal marker pattern of symbol-keyed
\* properties
IsMarkerName(name) ==
    /\ Len(name) >= 6
    /\ SubSeq(name, 1, 3) = <<"_", "_", "@">>
    /\ \E k \in 5..(Len(name) - 1) :
          /\ name[k] = "@"
          /\ \A j \in (k + 1)..Len(name) : name[j] \in Digits

\* property names used by the declarations below
Chars_id == <<"i","d">>
Chars_name == <<"n","a","m","e">>
Chars_email == <<"e","m","a","i","l">>
Chars_url == <<"u","r","l">>
Chars_link == <<"l","i","n","k">>
\* the other property names of the interfaces below
Names ==
    [ uuid |-> <<"u","u","i","d">>,
      age |-> <<"a","g","e">>,
      Email |-> <<"E","m","a","i","l">>,
      homeLink |-> <<"h","o","m","e","L","i","n","k">>,
      profileUrl |-> <<"p","r","o","f","i","l","e","U","r","l">>,
      nick |-> <<"n","i","c","k">>,
      bio |-> <<"b","i","o">>,
      profile |-> <<"p","r","o","f","i","l","e">>,
      settings |-> <<"s","e","t","t","i","n","g","s">>,
      tags |-> <<"t","a","g","s">>,
      at |-> <<"a","t">>,
      status |-> <<"s","t","a","t","u","s">>,
      role |-> <<"r","o","l","e">>,
      books |-> <<"b","o","o","k","s">>,
      title |-> <<"t","i","t","l","e">>,
      author |-> <<"a","u","t","h","o","r">>,
      value |-> <<"v","a","l","u","e">>,
      next |-> <<"n","e","x","t">>,
      light |-> <<"l","i","g","h","t">>,
      dark |-> <<"d","a","r","k">>,
      from |-> <<"f","r","o","m">>,
      to |-> <<"t","o">>,
      x |-> <<"x">>,
      cells |-> <<"c","e","l","l","s">>,
      body |-> <<"b","o","d","y">>,
      meta |-> <<"m","e","t","a">>,
      local |-> <<"l","o","c","a","l">>,
      iter |-> <<"_","_","@","i","t","@","4","2">>,
      opt |-> <<"o","p","t">>,
      byId |-> <<"b","y","I","d">>,
      only |-> <<"_","_","@","k","@","7">>,
      hostnameUrl |-> << "h", "o", "s", "t", "n", "a", "m", "e", "U", "r", "l" >>,
      cityId |-> << "c", "i", "t", "y", "I", "d" >>,
      payload |-> << "p", "a", "y", "l", "o", "a", "d" >>,
      done |-> << "d", "o", "n", "e" >>,
      fail |-> << "f", "a", "i", "l" >>,
      flag |-> << "f", "l", "a", "g" >>,
      missing |-> << "m", "i", "s", "s", "i", "n", "g" >>,
      workEmail |-> << "w", "o", "r", "k", "E", "m", "a", "i", "l" >> ]
\* the further keywords of the generator's string branch
Keywords ==
    [ currency |-> << "c", "u", "r", "r", "e", "n", "c", "y" >>,
      phone |-> << "p", "h", "o", "n", "e" >>,
      address |-> << "a", "d", "d", "r", "e", "s", "s" >>,
      city |-> << "c", "i", "t", "y" >>,
      country |-> << "c", "o", "u", "n", "t", "r", "y" >> ]

(***************************************************************************)
(* TypeDescriptor: what the walker reads from a ts-morph Type.             *)
(*   kind     which of isArray / isLiteral / isEnumLiteral / isUnion holds  *)
(*            ("primitive", "mapping" and "object" answer none of them)    *)
(*   text     Type.getText(); for an object or mapping it is also the      *)
(*            text of its apparent type, the cycle-guard key               *)
(*   elem     getArrayElementTypeOrThrow()                                 *)
(*   members  getUnionTypes()                                              *)
(*   alias    getAliasSymbol()?.getName(), "" when there is none           *)
(*   args     getAliasTypeArguments()                                      *)
(*   props    getApparentType().getProperties(), each with getName(),      *)
(*            getTypeAtLocation() and isOptional()                         *)
(*   lit      getLiteralValue() or the enum symbol's name                  *)
(***************************************************************************)
NoProps == <<>>

Desc(kind, text, elem, members, alias, args, props, lit) ==
    [kind |-> kind, text |-> text, elem |-> elem, members |-> members,
     alias |-> alias, args |-> args, props |-> props, lit |-> lit]

Primitive(name) == Desc("primitive", <<name>>, "", <<>>, "", <<>>, NoProps, "")
Literal(text, v) == Desc("literal", text, "", <<>>, "", <<>>, NoProps, v)
EnumMember(text, name) == Desc("enum", text, "", <<>>, "", <<>>, NoProps, name)
ArrayOf(text, elem) == Desc("array", text, elem, <<>>, "", <<>>, NoProps, "")
UnionOf(text, members) == Desc("union", text, "", members, "", <<>>, NoProps, "")
Mapping(text, args) == Desc("mapping", text, "", <<>>, "Record", args, NoProps, "")
Object(text, alias, props) == Desc("object", text, "", <<>>, alias, <<>>, props, "")

Required(name, type) == [name |-> name, type |-> type, optional |-> FALSE]
Optional(name, type) == [name |-> name, type |-> type, optional |-> TRUE]

\* The declarations of the source file handed to the entry point: the
\* interfaces of tests/index.test.ts (trimmed) and further ones that bring
\* in recursive aliases, repeated composites, an alias named Record without
\* type arguments, an empty object type and a symbol-keyed property.
Types ==
    [ string    |-> Primitive("string"),
      number    |-> Primitive("number"),
      boolean   |-> Primitive("boolean"),
      Date      |-> Primitive("Date"),
      null      |-> Primitive("null"),
      undefined |-> Primitive("undefined"),
      void      |-> Primitive("void"),
      any       |-> Primitive("any"),
      unknown   |-> Primitive("unknown"),
      never     |-> Primitive("never"),
      \* interface SimpleUser { id: string; name: string; email: string; age: number }
      SimpleUser |-> Object(<<"SimpleUser">>, "",
          << Required(Chars_id, "string"), Required(Chars_name, "string"),
             Required(Chars_email, "string"), Required(Names.age, "number") >>),
      \* interface Contact { Email: string; homeLink: string; profileUrl: string;
      \*                     url?: string; nick?: string; workEmail?: string }
      \* (url and workEmail under strict, nick not)
      Contact |-> Object(<<"Contact">>, "",
          << Required(Names.Email, "string"), Required(Names.homeLink, "string"),
             Required(Names.profileUrl, "string"),
             Optional(Chars_url, "OptString"), Optional(Names.nick, "string"),
             Optional(Names.workEmail, "OptString") >>),
      OptString |-> UnionOf(<<"string", "|", "undefined">>, <<"undefined", "string">>),
      \* interface ComplexUser { profile: { name: string; bio?: string };
      \*     settings: Record<string, any>; tags: string[]; at: Date | null }
      ComplexUser |-> Object(<<"ComplexUser">>, "",
          << Required(Names.profile, "Profile"), Required(Names.settings, "Settings"),
             Required(Names.tags, "StringArray"), Required(Names.at, "DateOrNull") >>),
      Profile |-> Object(<<"{", "name", "bio", "}">>, "",
          << Required(Chars_name, "string"), Optional(Names.bio, "OptString") >>),
      Settings |-> Mapping(<<"Record", "<", "string", "any", ">">>, <<"string", "any">>),
      StringArray |-> ArrayOf(<<"string", "[]">>, "string"),
      DateOrNull |-> UnionOf(<<"Date", "|", "null">>, <<"null", "Date">>),
      \* interface UserWithUnions { status: "active" | "inactive"; role: Role; opt?: number }
      UserWithUnions |-> Object(<<"UserWithUnions">>, "",
          << Required(Names.status, "Status"), Required(Names.role, "Role"),
             Optional(Names.opt, "number") >>),
      Status |-> UnionOf(<<"'active'", "|", "'inactive'">>, <<"Active", "Inactive">>),
      Active |-> Literal(<<"'active'">>, "active"),
      Inactive |-> Literal(<<"'inactive'">>, "inactive"),
      Role |-> EnumMember(<<"Role">>, "Role"),
      \* interface UserWithInterfaceTypes { id: string; books: Book[] }
      \* interface Book { title: string; author: UserWithInterfaceTypes }
      UserWithInterfaceTypes |-> Object(<<"UserWithInterfaceTypes">>, "",
          << Required(Chars_id, "string"), Required(Names.books, "BookArray") >>),
      BookArray |-> ArrayOf(<<"Book", "[]">>, "Book"),
      Book |-> Object(<<"Book">>, "",
          << Required(Names.title, "string"),
             Required(Names.author, "UserWithInterfaceTypes") >>),
      \* interface TreeNode { next?: TreeNode; value: number }
      TreeNode |-> Object(<<"TreeNode">>, "",
          << Optional(Names.next, "OptTreeNode"), Required(Names.value, "number") >>),
      OptTreeNode |-> UnionOf(<<"TreeNode", "|", "undefined">>, <<"undefined", "TreeNode">>),
      \* interface Theme { light: Record<string, any>; dark: Record<string, any>;
      \*                   from: Point; to: Point }   interface Point { x: number }
      Theme |-> Object(<<"Theme">>, "",
          << Required(Names.light, "Settings"), Required(Names.dark, "Settings"),
             Required(Names.from, "Point"), Required(Names.to, "Point") >>),
      Point |-> Object(<<"Point">>, "", << Required(Names.x, "number") >>),
      \* type Nested = Nested[];  interface Matrix { cells: Nested }
      Matrix |-> Object(<<"Matrix">>, "", << Required(Names.cells, "Nested") >>),
      Nested |-> ArrayOf(<<"Nested">>, "Nested"),
      \* type Json = string | Json[];  interface Doc { title: string; body: Json }
      Doc |-> Object(<<"Doc">>, "",
          << Required(Names.title, "string"), Required(Names.body, "Json") >>),
      Json |-> UnionOf(<<"Json">>, <<"string", "JsonArray">>),
      JsonArray |-> ArrayOf(<<"Json", "[]">>, "Json"),
      \* interface Registry { byId: Record<string, Registry> }
      Registry |-> Object(<<"Registry">>, "", << Required(Names.byId, "RegistryMap") >>),
      RegistryMap |-> Mapping(<<"Record", "<", "string", "Registry", ">">>,
                              <<"string", "Registry">>),
      \* type Record = { id: string }   (a local alias that shadows the utility type)
      \* interface Misc { meta: {}; local: Record; [Symbol.iterator]: any; id: string }
      Misc |-> Object(<<"Misc">>, "",
          << Required(Names.meta, "Empty"), Required(Names.local, "LocalRecord"),
             Required(Names.iter, "any"), Required(Chars_id, "string") >>),
      Empty |-> Object(<<"{}">>, "", NoProps),
      LocalRecord |-> Object(<<"Record">>, "Record", << Required(Chars_id, "string") >>),
      \* interface Keyed { [k]: number }   (only a symbol-keyed property)
      Keyed |-> Object(<<"Keyed">>, "", << Required(Names.only, "number") >>),
      \* interface Venue { hostnameUrl: string; cityId: string; phone: string;
      \*   currency: string; address: string; country: string; status: Status }
      Venue |-> Object(<<"Venue">>, "",
          << Required(Names.hostnameUrl, "string"), Required(Names.cityId, "string"),
             Required(Keywords.phone, "string"), Required(Keywords.currency, "string"),
             Required(Keywords.address, "string"), Required(Keywords.country, "string"),
             Required(Names.status, "Status") >>),
      \* interface Loose { payload: unknown; done: void; fail: never;
      \*   flag: boolean; missing: undefined }
      Loose |-> Object(<<"Loose">>, "",
          << Required(Names.payload, "unknown"), Required(Names.done, "void"),
             Required(Names.fail, "never"), Required(Names.flag, "boolean"),
             Required(Names.missing, "undefined") >>)
    ]

TypeIds == DOMAIN Types

\* SourceFile.getInterface(name): the interface declarations of the file
Interfaces ==
    { "SimpleUser", "Contact", "ComplexUser", "UserWithUnions",
      "UserWithInterfaceTypes", "Book", "TreeNode", "Theme", "Point",
      "Matrix", "Doc", "Registry", "Misc", "Keyed", "Venue", "Loose" }

\* the interfaceName arguments the entry point is called with
RequestedNames == Interfaces \cup { "NonExistentInterface", "Nested" }

\* the filePath arguments the entry point is called with: two files of the
\* same name and the same declarations in two directories
FilePaths == { <<"tests", "index.test.ts">>, <<"src", "index.test.ts">> }

\* path.basename(filePath)
basename(path) == path[Len(path)]
\* path.dirname(p); the root directory <<>> is its own dirname
dirname(path) == IF path = <<>> THEN <<>> ELSE SubSeq(path, 1, Len(path) - 1)
\* the directories that hold a tsconfig.json (fs.existsSync)
TsConfigs == { <<"tests">> }

\* findTsConfig(startPath): the nearest tsconfig.json in the directories
\* above startPath, the root directory left out (<<>>: undefined)
RECURSIVE FindTsConfigFrom(_)
FindTsConfigFrom(currentDir) ==
    IF currentDir = dirname(currentDir) THEN <<>>
    ELSE IF currentDir \in TsConfigs THEN <<Append(currentDir, "tsconfig.json")>>
    ELSE FindTsConfigFrom(dirname(currentDir))
FindTsConfig(startPath) == FindTsConfigFrom(dirname(startPath))

\* the singleton before its first call: project = null, sourceFiles empty
NoGenerator ==
    [project |-> <<>>, sourceFiles |-> <<>>, created |-> 0, requested |-> {}]

\* initProject(filePath): the project there is, or a new Project configured
\* with the tsconfig found for filePath
InitProject(g, path) ==
    IF g.project # <<>> THEN g
    ELSE [g EXCEPT !.project = <<[tsConfigFilePath |-> FindTsConfig(path)]>>,
                   !.created = @ + 1]

\* a getSourceFile that loads the file again when it is in the map
GetSourceFileAnew(g, path) ==
    LET h == InitProject(g, path)
    IN [h EXCEPT !.sourceFiles =
                     [q \in DOMAIN @ \cup {path} |->
                         IF q = path THEN Cardinality(g.requested) + 1 ELSE @[q]],
                 !.requested = @ \cup {path}]

\* getSourceFile(filePath): the entry of the map, or the file loaded into
\* the project and entered in the map; a loaded file is named by its
\* number in the order of loading
GetSourceFile(g, path) ==
    IF path \in DOMAIN g.sourceFiles
    THEN [g EXCEPT !.requested = @ \cup {path}]
    ELSE LET h == InitProject(g, path)
         IN [h EXCEPT !.sourceFiles =
                          [q \in DOMAIN @ \cup {path} |->
                              IF q = path THEN Cardinality(g.requested) + 1 ELSE @[q]],
                      !.requested = @ \cup {path}]

(***************************************************************************)
(* ZodSchemaGeneratorOptions                                               *)
(*   excludedSmartDetections  list of property names (an absent list       *)
(*                            behaves as the empty one)                    *)
(*   customTypeGenerators     list of [pattern, replacement]; a pattern is *)
(*                            a string or a RegExp, here a RegExp with a   *)
(*                            literal source and possibly the g flag       *)
(***************************************************************************)
StringPattern(text) == [type |-> "string", source |-> text, global |-> FALSE]
RegExpPattern(source, global) == [type |-> "RegExp", source |-> source, global |-> global]
Generator(pattern, replacement) == [pattern |-> pattern, replacement |-> replacement]

\* the rules of the customTypeGenerators lists below
Rules ==
    [ StatusRule |->
          Generator(StringPattern(<<"'active'", "|", "'inactive'">>), "z.enum(['active', 'inactive'])"),
      ArrayRule |->
          Generator(StringPattern(<<"string", "[]">>), "z.array(z.string().min(1))"),
      LiteralRule |->
          Generator(StringPattern(<<"'active'">>), "z.literal('on')"),
      EnumRule |->
          Generator(StringPattern(<<"Role">>), "z.enum(['admin'])"),
      NumberRule |->
          Generator(StringPattern(<<"number">>), "z.coerce.number()"),
      OptStringRule |->
          Generator(StringPattern(<<"string", "|", "undefined">>), "z.string().nullish()"),
      PointRule |->
          Generator(StringPattern(<<"Point">>), "z.tuple([z.number()])"),
      PointRegExp |->
          Generator(RegExpPattern(<<"Point">>, FALSE), "z.any()"),
      PointRegExpG |->
          Generator(RegExpPattern(<<"Point">>, TRUE), "z.unknown()"),
      RecordRegExpG |->
          Generator(RegExpPattern(<<"Record">>, TRUE), "z.record(z.string(), z.unknown())"),
      StringRegExpG |->
          Generator(RegExpPattern(<<"string">>, TRUE), "z.string().min(1)") ]

Options(excluded, generators) ==
    [excludedSmartDetections |-> excluded, customTypeGenerators |-> generators]

\* the options objects the entry point is called with
OptionsList ==
    << Options(<<>>, <<>>),
       Options(<<Chars_email, Chars_url, Names.uuid>>, <<>>),
       Options(<<Names.profileUrl, Chars_name>>, <<>>),
       Options(<<>>, <<Rules.StatusRule, Rules.NumberRule>>),
       Options(<<>>, <<Rules.ArrayRule, Rules.LiteralRule, Rules.EnumRule>>),
       Options(<<>>, <<Rules.PointRegExp, Rules.PointRegExpG, Rules.PointRule>>),
       Options(<<>>, <<Rules.PointRule, Rules.PointRegExpG, Rules.NumberRule>>),
       Options(<<>>, <<Rules.RecordRegExpG, Rules.PointRegExpG>>),
       Options(<<>>, <<Rules.PointRegExpG, Rules.PointRule>>),
       Options(<<Chars_email>>, <<Rules.OptStringRule, Rules.StringRegExpG>>) >>

(***************************************************************************)
(* OutputNode: the expression the emitted code string spells               *)
(***************************************************************************)
ZArray(element) == [k |-> "z.array", of |-> element]
ZLiteral(v) == [k |-> "z.literal", value |-> v]
ZEnum(name) == [k |-> "z.enum", name |-> name]
Replacement(code) == [k |-> "replacement", code |-> code]
ZString == [k |-> "z.string"]
ZEmail == [k |-> "z.email"]
ZUrl == [k |-> "z.url"]
ZPrimitive(name) == [k |-> "z.primitive", name |-> name]
ZUnion(members) == [k |-> "z.union", of |-> members]
ZRecord(key, value) == [k |-> "z.record", key |-> key, value |-> value]
ZObject(lines) == [k |-> "z.object", fields |-> lines]
ZOptional(inner) == [k |-> "z.optional", of |-> inner]
\* the "{}" returned on a cycle, on a Record without both type arguments and
\* on an object type without properties
EmptyObject == [k |-> "{}"]

(***************************************************************************)
(* The override check (lines 120-128)                                      *)
(***************************************************************************)
\* RegExp.prototype.test on a RegExp whose lastIndex is li: a RegExp with
\* the g flag searches from lastIndex and moves it behind the match, or
\* resets it to 0 when there is none; without the flag lastIndex is ignored
RegExpTest(pattern, text, li) ==
    IF pattern.global
    THEN LET at == IF li > Len(text) THEN -1 ELSE IndexOf(text, pattern.source, li)
         IN IF at >= 0
            THEN [ok |-> TRUE, li |-> at + Len(pattern.source)]
            ELSE [ok |-> FALSE, li |-> 0]
    ELSE [ok |-> includes(text, pattern.source), li |-> li]

\* (typeof pattern === 'string' && text === pattern) ||
\* (pattern instanceof RegExp && pattern.test(text))
PatternTest(pattern, text, li) ==
    IF pattern.type = "string"
    THEN [ok |-> text = pattern.source, li |-> li]
    ELSE RegExpTest(pattern, text, li)

\* the for-of loop over customTypeGenerators from rule i on: hit is the index
\* of the rule whose replacement is returned (0: none), li the lastIndex of
\* every rule's pattern afterwards
RECURSIVE OverrideScan(_, _, _, _)
OverrideScan(generators, i, text, li) ==
    IF i > Len(generators)
    THEN [hit |-> 0, li |-> li]
    ELSE LET t == PatternTest(generators[i].pattern, text, li[i])
             li2 == [li EXCEPT ![i] = t.li]
         IN IF t.ok THEN [hit |-> i, li |-> li2]
            ELSE OverrideScan(generators, i + 1, text, li2)

(***************************************************************************)
(* The leaf translations (lines 130-168)                                   *)
(***************************************************************************)
\* propName is an optional argument: <<>> when not passed, <<name>> otherwise
NoPropName == <<>>
PropName(name) == <<name>>
\* propName || ""
OrEmptyString(propName) == IF propName = NoPropName THEN <<>> ELSE propName[1]
\* if (propName)
Truthy(propName) == propName # NoPropName /\ propName[1] # <<>>

\* a string branch that never consults excludedSmartDetections
StringSchemaNoExclusion(opts, propName) ==
    IF Truthy(propName)
    THEN LET lowerProp == toLowerCase(propName[1])
         IN IF includes(lowerProp, Chars_email) THEN ZEmail
            ELSE IF includes(lowerProp, Chars_url) THEN ZUrl
            ELSE ZString
    ELSE ZString

\* the text === "string" branch
StringSchema(opts, propName) ==
    IF ArrayIncludes(opts.excludedSmartDetections, OrEmptyString(propName))
    THEN ZString
    ELSE IF Truthy(propName)
         THEN LET lowerProp == toLowerCase(propName[1])
              IN IF includes(lowerProp, Chars_email) THEN ZEmail
                 ELSE IF includes(lowerProp, Chars_url) THEN ZUrl
                 ELSE ZString
         ELSE ZString

\* the texts of the chain of text === "..." tests after the string branch
PrimitiveTexts ==
    {"number", "boolean", "Date", "null", "undefined", "void", "any", "unknown", "never"}

IsStringText(text) == text = <<"string">>
IsPrimitiveText(text) == Len(text) = 1 /\ text[1] \in PrimitiveTexts

(***************************************************************************)
(* The generator library (MockInterfaceGenerator)                          *)
(*   FakeGeneratorOptions: arrayLength, optionalPropertyChance and         *)
(*   recordLength, each <<>> when the caller leaves it out and <<v>> when  *)
(*   given.  Probabilities and Math.random() results are in hundredths.    *)
(***************************************************************************)
FakeGeneratorOptions(arrayLength, optionalPropertyChance, recordLength) ==
    [arrayLength |-> arrayLength,
     optionalPropertyChance |-> optionalPropertyChance,
     recordLength |-> recordLength]

MockOptionsList ==
    << FakeGeneratorOptions(<<>>, <<>>, <<>>),
       FakeGeneratorOptions(<<>>, <<100>>, <<[min |-> 1, max |-> 2]>>),
       FakeGeneratorOptions(<<>>, <<0>>, <<[min |-> 1, max |-> 2]>>),
       FakeGeneratorOptions(<<0>>, <<>>, <<[min |-> 2, max |-> 2]>>),
       FakeGeneratorOptions(<<3>>, <<50>>, <<[min |-> 1, max |-> 2]>>),
       FakeGeneratorOptions(<<1>>, <<100>>, <<>>) >>

\* the values Math.random() is taken to return: 0, 0.6 and 0.99
RandomValues == {0, 60, 99}

\* the count arguments the compiled generator is called with
Counts == {<<>>, <<0>>, <<2>>}

\* given || fallback, for a number: 0 is falsy and gives the fallback
OrNumber(given, fallback) ==
    IF given = <<>> \/ given[1] = 0 THEN fallback ELSE given[1]
\* given || fallback, for an object
OrObject(given, fallback) == IF given = <<>> THEN fallback ELSE given[1]

\* options.arrayLength || 2
ArrayLength(opts) == OrNumber(opts.arrayLength, 2)
\* options.optionalPropertyChance || 0.7
OptionalPropertyChance(opts) == OrNumber(opts.optionalPropertyChance, 70)
\* options.recordLength || { min: 1, max: 5 }
RecordLength(opts) == OrObject(opts.recordLength, [min |-> 1, max |-> 5])

\* the expression the emitted generator code spells
MArray(length, element) == [k |-> "Array.from", length |-> length, of |-> element]
MLiteral(v) == [k |-> "literal", value |-> v]
MIdentifier(text) == [k |-> "identifier", text |-> text]
Faker(call) == [k |-> "faker", call |-> call]
MConst(name) == [k |-> "const", name |-> name]
MArrayElement(members) == [k |-> "faker.helpers.arrayElement", of |-> members]
MRecord(length, key, value) ==
    [k |-> "Object.fromEntries", min |-> length.min, max |-> length.max,
     key |-> key, value |-> value]
MObject(lines) == [k |-> "object", fields |-> lines]

\* the string branch: the first keyword, in the order of the code, that the
\* lower-cased property name contains
MockString(propName) ==
    IF Truthy(propName)
    THEN LET lowerProp == toLowerCase(propName[1])
         IN CASE includes(lowerProp, Chars_email) -> Faker("internet.email()")
              [] includes(lowerProp, Keywords.currency) -> Faker("finance.currencyCode()")
              [] includes(lowerProp, Chars_name) -> Faker("person.fullName()")
              [] includes(lowerProp, Keywords.phone) -> Faker("phone.number()")
              [] includes(lowerProp, Keywords.address) -> Faker("location.streetAddress()")
              [] includes(lowerProp, Keywords.city) -> Faker("location.city()")
              [] includes(lowerProp, Keywords.country) -> Faker("location.country()")
              [] includes(lowerProp, Chars_url) \/ includes(lowerProp, Chars_link) ->
                    Faker("internet.url()")
              [] includes(lowerProp, Chars_id) -> Faker("string.uuid()")
              [] OTHER -> Faker("lorem.word()")
    ELSE Faker("lorem.word()")

\* the texts the generator has a branch for after "string"
MockPrimitiveTexts == { "number", "boolean", "Date", "null", "undefined", "any" }
IsMockPrimitiveText(text) == Len(text) = 1 /\ text[1] \in MockPrimitiveTexts

MockPrimitive(name) ==
    CASE name = "number" -> Faker("number.int({ min: 1, max: 100 })")
      [] name = "boolean" -> Faker("datatype.boolean()")
      [] name = "Date" -> Faker("date.recent()")
      [] name = "null" -> MConst("null")
      [] name = "undefined" -> MConst("undefined")
      [] name = "any" -> Faker("lorem.word()")

\* the body of create<Name>Mock is evaluated at every call: an enum-typed
\* node is spelled type.getText() (the bare enum name), which is not bound
\* in new Function('faker', ...), so evaluating it throws ReferenceError
RECURSIVE MockHasFreeIdentifier(_)
MockHasFreeIdentifier(tree) ==
    CASE tree.k = "identifier" -> TRUE
      [] tree.k = "Array.from" -> tree.length > 0 /\ MockHasFreeIdentifier(tree.of)
      [] tree.k = "faker.helpers.arrayElement" ->
            \E i \in 1..Len(tree.of) : MockHasFreeIdentifier(tree.of[i])
      [] tree.k = "Object.fromEntries" ->
            tree.max > 0 /\ (MockHasFreeIdentifier(tree.key) \/ MockHasFreeIdentifier(tree.value))
      [] tree.k = "object" ->
            \E i \in 1..Len(tree.fields) : MockHasFreeIdentifier(tree.fields[i].value)
      [] OTHER -> FALSE

\* a selection that always takes the first element
ArrayElementFirst(produced) == produced[1]

\* faker.helpers.arrayElement([...]): every element is evaluated and one of
\* them, any one, is returned
ArrayElement(produced) == UNION {produced[i] : i \in 1..Len(produced)}

\* The values an evaluation of the expression can give.  Every faker call
\* other than arrayElement and the Record length stands for one value, named
\* after the call.  A Record value is the list of entries that is handed to
\* Object.fromEntries.
NoInstance == [k |-> "none"]
\* the elements of a finite set, in a fixed order
RECURSIVE Enumerate(_)
Enumerate(S) ==
    IF S = {}
    THEN <<>>
    ELSE LET first == CHOOSE x \in S : TRUE
         IN <<first>> \o Enumerate(S \ {first})

NoBatch ==
    [phase |-> "none", given |-> <<>>, made |-> 0, last |-> NoInstance,
     outcomes |-> <<>>]
RECURSIVE Values(_), Rows(_, _)
Values(tree) ==
    CASE tree.k = "faker" -> {[k |-> "fake", from |-> tree.call]}
      [] tree.k = "literal" -> {[k |-> "string", value |-> tree.value]}
      [] tree.k = "const" -> {[k |-> tree.name]}
      [] tree.k = "{}" -> {[k |-> "object", fields |-> <<>>]}
      [] tree.k = "identifier" -> {}
      [] tree.k = "Array.from" ->
            {[k |-> "array", items |-> s] : s \in [1..tree.length -> Values(tree.of)]}
      [] tree.k = "faker.helpers.arrayElement" ->
            ArrayElement([i \in 1..Len(tree.of) |-> Values(tree.of[i])])
      [] tree.k = "Object.fromEntries" ->
            {[k |-> "record", entries |-> s] :
                s \in UNION {[1..n -> Values(tree.key) \X Values(tree.value)] :
                                n \in tree.min..tree.max}}
      [] tree.k = "object" ->
            {[k |-> "object", fields |-> r] : r \in Rows(tree.fields, Len(tree.fields))}
Rows(lines, n) ==
    IF n = 0
    THEN {<<>>}
    ELSE {Append(r, [name |-> lines[n].name, value |-> v]) :
             r \in Rows(lines, n - 1), v \in Values(lines[n].value)}

(***************************************************************************)
(* State                                                                   *)
(***************************************************************************)
VARIABLES
    options,    \* the options object the compilation works with
    lastIndex,  \* lastIndex of the pattern of every customTypeGenerators rule
    status,     \* "idle", "compiling", "returning", "done" or "failed"
    error,      \* the error the last call threw, "" when none
    calls,      \* number of entry-point calls made so far
    root,       \* interfaceName of the current call
    stack,      \* the active generateZodSchema calls, outermost first
    visited,    \* the visited set of the current root compilation
    ret,        \* the last generateZodSchema call that returned
    prop,       \* the last property line a generateZodSchema call emitted
    artifact,   \* what the last successful entry-point call returned
    backend,    \* "zod": the validator library, "mock": the generator library
    filePath,   \* filePath of the current call, as its path segments
    message,    \* what the message of the last "not found" Error names
    artifactOf, \* interfaceName of the call that returned artifact
    batch,      \* the compiled generator in the caller's hands: what one
                \* evaluation of its expression can give and, of its last
                \* call, how it ended, the count it was given, the number
                \* of instances it made and the last of them
    call,       \* the caller's options object, the arguments the last
                \* interfaceToZod call was given, the method it went to and
                \* the options the call that returned artifact worked with
    generator   \* the singleton: its project (<<>>: null), its sourceFiles
                \* map and, of its history, the number of Projects made
                \* and the file paths getSourceFile was asked for

vars == <<options, lastIndex, status, error, calls, root, stack, visited,
          ret, prop, artifact, backend, filePath, message, artifactOf, batch, call, generator>>

\* the arguments of an interfaceToZod call: what the first one is, whether a
\* filePath and whether a third argument are given (absent: undefined)
CallForm(first, second, third) ==
    [first |-> first, filePath |-> second, options_ |-> third]
NoForm == CallForm("", FALSE, FALSE)
\* the overloads: (options?) and (interfaceName?, filePath?, options?)
CallForms ==
    {CallForm("object", FALSE, FALSE)} \cup
    {CallForm(first, fp, o) :
        first \in {"string", "undefined"}, fp \in BOOLEAN, o \in BOOLEAN}
\* the calls that give both a name and a filePath
NamedForms == {form \in CallForms : form.first = "string" /\ form.filePath}
NoCall(given) == [given |-> given, form |-> NoForm, route |-> "none", of |-> given]

\* the cycle-guard key of a type: apparent.getText()
Key(node) == Types[node].text

\* a filter that lets every property through
FilteredPropsUnfiltered(node) == Types[node].props

\* props.filter(prop => !/^__@.+@\d+$/.test(prop.getName()))
FilteredProps(node) ==
    SelectSeq(Types[node].props, LAMBDA p : ~IsMarkerName(p.name))

\* one activation of generateZodSchema: its arguments (node, depth, propName),
\* where it stands (pc, idx, acc) and, for the properties below, the visited
\* set and the lastIndex values it was entered with and the number of
\* recursive calls it has made
Frame(node, depth, propName, vis, li) ==
    [node |-> node, depth |-> depth, propName |-> propName, pc |-> "start",
     idx |-> 0, acc |-> <<>>, v0 |-> vis, li0 |-> li, kids |-> 0]

NoRet ==
    [node |-> "", propName |-> NoPropName, depth |-> 0, via |-> "none",
     value |-> EmptyObject, v0 |-> {}, v1 |-> {}, li0 |-> <<>>, li1 |-> <<>>,
     hit |-> 0, kids |-> 0]

NoProp ==
    [owner |-> "", name |-> <<>>, optional |-> FALSE, via |-> "none",
     hit |-> 0, child |-> EmptyObject, out |-> EmptyObject]

Top == stack[Len(stack)]
Rest == SubSeq(stack, 1, Len(stack) - 1)

\* a call with the arguments, visited set and lastIndex values of a call that
\* is still active repeats that call's steps and so calls itself again: the
\* recursion has no end and the engine throws RangeError (stack exhausted);
\* the stack is kept as it was when the repetition began
Diverges(base, node, propName, vis, li) ==
    \E i \in 1..Len(base) :
        /\ base[i].node = node
        /\ base[i].propName = propName
        /\ base[i].v0 = vis
        /\ base[i].li0 = li

\* a recursive call this.generateZodSchema(node, ..., depth, visited, propName)
\* made by the frames of base
Invoke(base, node, depth, propName, vis, li) ==
    IF Diverges(base, node, propName, vis, li)
    THEN /\ status' = "failed"
         /\ error' = "RangeError"
         /\ stack' = Append(base, Frame(node, depth, propName, vis, li))
         /\ visited' = vis
         /\ lastIndex' = li
         /\ ret' = NoRet
    ELSE /\ status' = "compiling"
         /\ error' = error
         /\ stack' = Append(base, Frame(node, depth, propName, vis, li))
         /\ visited' = vis
         /\ lastIndex' = li
         /\ ret' = ret

\* `return value` of the frame f, which leaves the stack as base
Return(base, f, via, hit, value, vis, li) ==
    /\ status' = "returning"
    /\ error' = error
    /\ stack' = base
    /\ visited' = vis
    /\ lastIndex' = li
    /\ ret' = [node |-> f.node, propName |-> f.propName, depth |-> f.depth,
               via |-> via, value |-> value, v0 |-> f.v0, v1 |-> vis,
               li0 |-> f.li0, li1 |-> li, hit |-> hit, kids |-> f.kids]

TypeOK ==
    /\ status \in {"idle", "compiling", "returning", "done", "failed"}
    /\ error \in {"", "NotFound", "RangeError", "ReferenceError", "CallSite"}
    /\ call.form \in CallForms \cup {NoForm}
    /\ call.route \in {"none", "explicit", "callSite"}
    /\ backend = "mock" => call = NoCall(options)
    /\ generator.created \in 0..1
    /\ DOMAIN generator.sourceFiles \subseteq FilePaths
    /\ backend \in {"zod", "mock"}
    /\ filePath \in FilePaths \cup {<<>>}
    /\ batch.phase \in {"none", "returned", "ReferenceError"}
    /\ batch.made \in 0..2
    /\ backend = "zod" => batch = NoBatch
    /\ calls \in 0..MaxCalls
    /\ visited \subseteq {Types[t].text : t \in TypeIds}

\* a message that names the file only
NotFoundMessageUnnamed(interfaceName, path) ==
    [interface |-> "", location |-> basename(path)]

\* `Interface '${interfaceName}' not found in ${path.basename(filePath)}`
NotFoundMessage(interfaceName, path) ==
    [interface |-> interfaceName, location |-> basename(path)]
NoMessage == [interface |-> "", location |-> ""]

\* the emitted code is the body of new Function('z', ...): z is the only name
\* bound in it, so the bare enum name of `z.enum(${name})` is a free
\* identifier and evaluating it throws ReferenceError
RECURSIVE HasFreeIdentifier(_)
HasFreeIdentifier(tree) ==
    CASE tree.k = "z.enum" -> TRUE
      [] tree.k \in {"z.array", "z.optional"} -> HasFreeIdentifier(tree.of)
      [] tree.k = "z.union" ->
            \E i \in 1..Len(tree.of) : HasFreeIdentifier(tree.of[i])
      [] tree.k = "z.record" ->
            HasFreeIdentifier(tree.key) \/ HasFreeIdentifier(tree.value)
      [] tree.k = "z.object" ->
            \E i \in 1..Len(tree.fields) : HasFreeIdentifier(tree.fields[i].value)
      [] OTHER -> FALSE

\* a program uses one of the two libraries, with one options object; before
\* the first call no compilation has worked with any other
Init ==
    /\ \/ /\ backend = "zod"
          /\ options \in {OptionsList[i] : i \in 1..Len(OptionsList)}
          /\ lastIndex = [i \in 1..Len(options.customTypeGenerators) |-> 0]
       \/ /\ backend = "mock"
          /\ options \in {MockOptionsList[i] : i \in 1..Len(MockOptionsList)}
          /\ lastIndex = <<>>
    /\ call = NoCall(options)
    /\ generator = NoGenerator
    /\ filePath = <<>>
    /\ message = NoMessage
    /\ artifactOf = ""
    /\ batch = NoBatch
    /\ status = "idle"
    /\ error = ""
    /\ calls = 0
    /\ root = ""
    /\ stack = <<>>
    /\ visited = {}
    /\ ret = NoRet
    /\ prop = NoProp
    /\ artifact = EmptyObject

(***************************************************************************)
(* Entry point: interfaceToZod, which goes to                              *)
(* generateZodSchemaFunction(interfaceName, filePath, options) directly or *)
(* through generateZodSchemaFromCallSite(options)                          *)
(***************************************************************************)
CanCall == status \in {"idle", "done", "failed"} /\ calls < MaxCalls

\* sourceFile.getInterface(interfaceName) finds the interface: the walk
\* starts on its type with depth 0, a new visited set and no propName
GenerateZodSchemaFunction(g, interfaceName, path, opts) ==
    /\ interfaceName \in Interfaces
    /\ generator' = GetSourceFile(g, path)
    /\ options' = opts
    /\ filePath' = path
    /\ message' = NoMessage
    /\ root' = interfaceName
    /\ status' = "compiling"
    /\ error' = ""
    /\ stack' = <<Frame(interfaceName, 0, NoPropName, {}, lastIndex)>>

\* if (!iface) throw new Error(`Interface '...' not found in ...`)
InterfaceNotFound(g, interfaceName, path, opts) ==
    /\ interfaceName \notin Interfaces
    /\ generator' = GetSourceFile(g, path)
    /\ options' = opts
    /\ filePath' = path
    /\ message' = NotFoundMessage(interfaceName, path)
    /\ root' = interfaceName
    /\ status' = "failed"
    /\ error' = "NotFound"
    /\ stack' = <<>>

\* the call expression at the call site has no type argument
NoTypeArgument == ""
\* the interfaces named by the type argument of the call sites
CallSiteTypes == {"SimpleUser", "Contact"}

\* generateZodSchemaFromCallSite(options): the call expression is looked up
\* in the caller's file scriptName, which getSourceFile loads; without a
\* type argument it throws, with the type argument T declared as an
\* interface in the file path it goes on to
\* generateZodSchemaFunction(name of T, path, options)
GenerateZodSchemaFromCallSite(opts, scriptName, typeArgument, path) ==
    IF typeArgument = NoTypeArgument
    THEN /\ generator' = GetSourceFile(generator, scriptName)
         /\ options' = options
         /\ filePath' = scriptName
         /\ message' = NoMessage
         /\ root' = ""
         /\ status' = "failed"
         /\ error' = "CallSite"
         /\ stack' = <<>>
    ELSE GenerateZodSchemaFunction(GetSourceFile(generator, scriptName),
                                   typeArgument, path, opts)

\* {}: no excludedSmartDetections, no customTypeGenerators
EmptyOptions == Options(<<>>, <<>>)

\* const options = typeof interfaceNameOrOptions === 'string'
\*     ? options_ : (interfaceNameOrOptions || {})
\* with options_ = {} when the third argument is absent
ArgOptions(form, given) ==
    IF form.first = "string"
    THEN IF form.options_ THEN given ELSE EmptyOptions
    ELSE IF form.first = "object" THEN given ELSE EmptyOptions

\* const interfaceName = typeof interfaceNameOrOptions === 'object'
\*     ? undefined : interfaceNameOrOptions      (<<>>: undefined)
ArgInterfaceName(form, name) ==
    IF form.first = "string" THEN <<name>> ELSE <<>>

\* a program that has an options object passes it in every call, as the
\* first or as the third argument; one without passes none
PassesOptions(form) == form.first = "object" \/ form.options_

\* interfaceToZod(interfaceNameOrOptions, filePath, options_)
InterfaceToZod(form, name, path, scriptName, typeArgument) ==
    /\ backend = "zod"
    /\ CanCall
    /\ PassesOptions(form) <=> call.given # EmptyOptions
    /\ LET opts == ArgOptions(form, call.given)
           interfaceName == ArgInterfaceName(form, name)
       IN IF interfaceName = <<>> \/ ~form.filePath
          THEN /\ GenerateZodSchemaFromCallSite(opts, scriptName, typeArgument, path)
               /\ call' = [call EXCEPT !.form = form, !.route = "callSite"]
          ELSE /\ \/ GenerateZodSchemaFunction(generator, interfaceName[1], path, opts)
                  \/ InterfaceNotFound(generator, interfaceName[1], path, opts)
               /\ call' = [call EXCEPT !.form = form, !.route = "explicit"]
    /\ calls' = calls + 1
    /\ visited' = {}
    /\ ret' = NoRet
    /\ prop' = NoProp
    /\ UNCHANGED <<lastIndex, artifact, backend, artifactOf, batch>>

\* the root generateZodSchema call has returned: the code string is
\* evaluated by new Function('z', ...)(z) and the schema handed back
Assemble ==
    /\ backend = "zod"
    /\ status = "returning"
    /\ stack = <<>>
    /\ IF HasFreeIdentifier(ret.value)
       THEN /\ status' = "failed"
            /\ error' = "ReferenceError"
            /\ UNCHANGED <<artifact, artifactOf, call>>
       ELSE /\ status' = "done"
            /\ error' = error
            /\ artifact' = ret.value
            /\ artifactOf' = root
            /\ call' = [call EXCEPT !.of = options]
    /\ UNCHANGED <<options, lastIndex, calls, root, stack, visited, ret, prop,
                   backend, filePath, message, batch,
                   generator>>

(***************************************************************************)
(* generateZodSchema, from its first line to its first recursive call or   *)
(* its return.  The tests are made in the order of the code: array,        *)
(* literal, enum literal, override rules, string, the other primitives,    *)
(* union, cycle guard, Record, object.                                     *)
(***************************************************************************)
AtStart == backend = "zod" /\ status = "compiling" /\ stack # <<>> /\ Top.pc = "start"

\* the override loop, run on the type of the frame that is starting
Scan == OverrideScan(options.customTypeGenerators, 1, Types[Top.node].text, lastIndex)

\* none of isArray(), isLiteral() || isStringLiteral(), isEnumLiteral()
PastKindTests == Types[Top.node].kind \notin {"array", "literal", "enum"}
\* ... and no override rule matched
PastOverrides == PastKindTests /\ Scan.hit = 0
\* ... and the text is not that of a primitive
PastPrimitives ==
    /\ PastOverrides
    /\ ~IsStringText(Types[Top.node].text)
    /\ ~IsPrimitiveText(Types[Top.node].text)
\* ... and not isUnion()
PastUnion == PastPrimitives /\ Types[Top.node].kind # "union"

\* a guard that never fires
CycleGuardOff(vis, key) == FALSE

\* visited.has(key)
CycleGuard(vis, key) == key \in vis
\* ... and the key is not in visited: visited.add(key) follows
Guarded == PastUnion /\ ~CycleGuard(visited, Key(Top.node))

\* type.getAliasSymbol()?.getName() === "Record"
IsRecordAlias(node) == Types[node].alias = "Record"

\* the frame f after it has made its next recursive call
Calling(f, pc, idx, acc) ==
    [f EXCEPT !.pc = pc, !.idx = idx, !.acc = acc, !.kids = f.kids + 1]

\* if (type.isArray()): compile the element type, same depth, no propName
CompileArray ==
    /\ AtStart
    /\ Types[Top.node].kind = "array"
    /\ Invoke(Append(Rest, Calling(Top, "array", 1, <<>>)),
              Types[Top.node].elem, Top.depth, NoPropName, visited, lastIndex)
    /\ UNCHANGED <<options, calls, root, prop, artifact, backend, filePath, message, artifactOf, batch, call, generator>>

\* if (type.isLiteral() || type.isStringLiteral())
CompileLiteral ==
    /\ AtStart
    /\ Types[Top.node].kind = "literal"
    /\ Return(Rest, Top, "literal", 0, ZLiteral(Types[Top.node].lit), visited, lastIndex)
    /\ UNCHANGED <<options, calls, root, prop, artifact, backend, filePath, message, artifactOf, batch, call, generator>>

\* if (type.isEnumLiteral())
CompileEnumLiteral ==
    /\ AtStart
    /\ Types[Top.node].kind = "enum"
    /\ Return(Rest, Top, "enum", 0, ZEnum(Types[Top.node].lit), visited, lastIndex)
    /\ UNCHANGED <<options, calls, root, prop, artifact, backend, filePath, message, artifactOf, batch, call, generator>>

\* a customTypeGenerators rule matches the text: return its replacement
CompileOverride ==
    /\ AtStart
    /\ PastKindTests
    /\ Scan.hit # 0
    /\ Return(Rest, Top, "override", Scan.hit,
              Replacement(options.customTypeGenerators[Scan.hit].replacement),
              visited, Scan.li)
    /\ UNCHANGED <<options, calls, root, prop, artifact, backend, filePath, message, artifactOf, batch, call, generator>>

\* if (text === "string")
CompileString ==
    /\ AtStart
    /\ PastOverrides
    /\ IsStringText(Types[Top.node].text)
    /\ Return(Rest, Top, "string", 0, StringSchema(options, Top.propName),
              visited, Scan.li)
    /\ UNCHANGED <<options, calls, root, prop, artifact, backend, filePath, message, artifactOf, batch, call, generator>>

\* if (text === "number") ... if (text === "never")
CompilePrimitive ==
    /\ AtStart
    /\ PastOverrides
    /\ ~IsStringText(Types[Top.node].text)
    /\ IsPrimitiveText(Types[Top.node].text)
    /\ Return(Rest, Top, "primitive", 0, ZPrimitive(Types[Top.node].text[1]),
              visited, Scan.li)
    /\ UNCHANGED <<options, calls, root, prop, artifact, backend, filePath, message, artifactOf, batch, call, generator>>

\* if (type.isUnion()): compile the first member, same depth, no propName
CompileUnion ==
    /\ AtStart
    /\ PastPrimitives
    /\ Types[Top.node].kind = "union"
    /\ Invoke(Append(Rest, Calling(Top, "union", 1, <<>>)),
              Types[Top.node].members[1], Top.depth, NoPropName, visited, Scan.li)
    /\ UNCHANGED <<options, calls, root, prop, artifact, backend, filePath, message, artifactOf, batch, call, generator>>

\* if (visited.has(key)) return "{}"
CycleHit ==
    /\ AtStart
    /\ PastUnion
    /\ CycleGuard(visited, Key(Top.node))
    /\ Return(Rest, Top, "cycle", 0, EmptyObject, visited, Scan.li)
    /\ UNCHANGED <<options, calls, root, prop, artifact, backend, filePath, message, artifactOf, batch, call, generator>>

\* Record without both type arguments: visited.delete(key); return "{}"
CompileRecordWithoutArguments ==
    /\ AtStart
    /\ Guarded
    /\ IsRecordAlias(Top.node)
    /\ Len(Types[Top.node].args) < 2
    /\ Return(Rest, Top, "recordWithoutArguments", 0, EmptyObject,
              (visited \cup {Key(Top.node)}) \ {Key(Top.node)}, Scan.li)
    /\ UNCHANGED <<options, calls, root, prop, artifact, backend, filePath, message, artifactOf, batch, call, generator>>

\* Record<K, V>: visited.add(key), compile K at depth + 1
CompileRecord ==
    /\ AtStart
    /\ Guarded
    /\ IsRecordAlias(Top.node)
    /\ Len(Types[Top.node].args) >= 2
    /\ Invoke(Append(Rest, Calling(Top, "record", 1, <<>>)),
              Types[Top.node].args[1], Top.depth + 1, NoPropName,
              visited \cup {Key(Top.node)}, Scan.li)
    /\ UNCHANGED <<options, calls, root, prop, artifact, backend, filePath, message, artifactOf, batch, call, generator>>

\* if (props.length === 0) { visited.delete(key); return "{}" }
CompileEmptyObject ==
    /\ AtStart
    /\ Guarded
    /\ ~IsRecordAlias(Top.node)
    /\ Len(Types[Top.node].props) = 0
    /\ Return(Rest, Top, "emptyObject", 0, EmptyObject,
              (visited \cup {Key(Top.node)}) \ {Key(Top.node)}, Scan.li)
    /\ UNCHANGED <<options, calls, root, prop, artifact, backend, filePath, message, artifactOf, batch, call, generator>>

\* object with properties: visited.add(key), compile the type of the first
\* property that passes the filter at depth + 1 with its name as propName;
\* when the filter leaves none, visited.delete(key) and an object without
\* lines is returned
CompileObject ==
    /\ AtStart
    /\ Guarded
    /\ ~IsRecordAlias(Top.node)
    /\ Len(Types[Top.node].props) > 0
    /\ LET props == FilteredProps(Top.node)
       IN IF props = <<>>
          THEN Return(Rest, Top, "object", 0, ZObject(<<>>),
                      (visited \cup {Key(Top.node)}) \ {Key(Top.node)}, Scan.li)
          ELSE Invoke(Append(Rest, Calling(Top, "object", 1, <<>>)),
                      props[1].type, Top.depth + 1, PropName(props[1].name),
                      visited \cup {Key(Top.node)}, Scan.li)
    /\ UNCHANGED <<options, calls, root, prop, artifact, backend, filePath, message, artifactOf, batch, call, generator>>

(***************************************************************************)
(* generateZodSchema, from the return of a recursive call to the next      *)
(* recursive call or its own return                                        *)
(***************************************************************************)
Resuming(pc) == backend = "zod" /\ status = "returning" /\ stack # <<>> /\ Top.pc = pc

\* return `z.array(${elementSchema})`
ReturnArray ==
    /\ Resuming("array")
    /\ Return(Rest, Top, "array", 0, ZArray(ret.value), visited, lastIndex)
    /\ UNCHANGED <<options, calls, root, prop, artifact, backend, filePath, message, artifactOf, batch, call, generator>>

\* unionTypes.map(...): the next member, or return `z.union([...])`
ContinueUnion ==
    /\ Resuming("union")
    /\ LET members == Types[Top.node].members
           acc == Append(Top.acc, ret.value)
       IN IF Top.idx < Len(members)
          THEN Invoke(Append(Rest, Calling(Top, "union", Top.idx + 1, acc)),
                      members[Top.idx + 1], Top.depth, NoPropName, visited, lastIndex)
          ELSE Return(Rest, Top, "union", 0, ZUnion(acc), visited, lastIndex)
    /\ UNCHANGED <<options, calls, root, prop, artifact, backend, filePath, message, artifactOf, batch, call, generator>>

\* after keySchema compile V at depth + 1; after valueSchema
\* return `z.record(${keySchema}, ${valueSchema})` (the key stays in visited)
ContinueRecord ==
    /\ Resuming("record")
    /\ LET acc == Append(Top.acc, ret.value)
       IN IF Top.idx < 2
          THEN Invoke(Append(Rest, Calling(Top, "record", 2, acc)),
                      Types[Top.node].args[2], Top.depth + 1, NoPropName,
                      visited, lastIndex)
          ELSE Return(Rest, Top, "record", 0, ZRecord(acc[1], acc[2]),
                      visited, lastIndex)
    /\ UNCHANGED <<options, calls, root, prop, artifact, backend, filePath, message, artifactOf, batch, call, generator>>

\* a wrapping that leaves a union alone (it already has an undefined member)
OptionalWrapUnlessUnion(optional, valueSchema) ==
    IF optional /\ valueSchema.k # "z.union" THEN ZOptional(valueSchema) ELSE valueSchema

\* a wrapping that leaves a rule's replacement alone
OptionalWrapUnlessReplacement(optional, valueSchema) ==
    IF optional /\ valueSchema.k # "replacement" THEN ZOptional(valueSchema) ELSE valueSchema

\* if (optional) valueSchema = `z.optional(${valueSchema})`
OptionalWrap(optional, valueSchema) ==
    IF optional THEN ZOptional(valueSchema) ELSE valueSchema

\* the body of props.map(...) after the recursive call: wrap, emit the line;
\* then the next property, or visited.delete(key) and return `z.object({...})`
ContinueObject ==
    /\ Resuming("object")
    /\ LET props == FilteredProps(Top.node)
           p == props[Top.idx]
           valueSchema == OptionalWrap(p.optional, ret.value)
           lines == Append(Top.acc, [name |-> p.name, value |-> valueSchema])
       IN /\ prop' = [owner |-> Top.node, name |-> p.name, optional |-> p.optional,
                      via |-> ret.via, hit |-> ret.hit, child |-> ret.value,
                      out |-> valueSchema]
          /\ IF Top.idx < Len(props)
             THEN Invoke(Append(Rest, Calling(Top, "object", Top.idx + 1, lines)),
                         props[Top.idx + 1].type, Top.depth + 1,
                         PropName(props[Top.idx + 1].name), visited, lastIndex)
             ELSE Return(Rest, Top, "object", 0, ZObject(lines),
                         visited \ {Key(Top.node)}, lastIndex)
    /\ UNCHANGED <<options, calls, root, artifact, backend, filePath, message, artifactOf, batch, call, generator>>

(***************************************************************************)
(* Generator library, entry point:                                         *)
(* generateMockFunction(interfaceName, filePath, options)                  *)
(***************************************************************************)
\* sourceFile.getInterface(interfaceName) finds the interface: the walk
\* starts on its type with depth 0, a new visited set and no propName
GenerateMockFunction(interfaceName, path) ==
    /\ backend = "mock"
    /\ CanCall
    /\ interfaceName \in Interfaces
    /\ filePath' = path
    /\ message' = NoMessage
    /\ calls' = calls + 1
    /\ root' = interfaceName
    /\ status' = "compiling"
    /\ error' = ""
    /\ stack' = <<Frame(interfaceName, 0, NoPropName, {}, lastIndex)>>
    /\ visited' = {}
    /\ ret' = NoRet
    /\ prop' = NoProp
    /\ batch' = NoBatch
    /\ generator' = GetSourceFile(generator, path)
    /\ UNCHANGED <<options, lastIndex, artifact, backend, artifactOf, call>>

\* if (!iface) throw new Error(`Interface '...' not found in ...`)
MockInterfaceNotFound(interfaceName, path) ==
    /\ backend = "mock"
    /\ CanCall
    /\ interfaceName \notin Interfaces
    /\ filePath' = path
    /\ message' = NotFoundMessage(interfaceName, path)
    /\ calls' = calls + 1
    /\ root' = interfaceName
    /\ status' = "failed"
    /\ error' = "NotFound"
    /\ stack' = <<>>
    /\ visited' = {}
    /\ ret' = NoRet
    /\ prop' = NoProp
    /\ batch' = NoBatch
    /\ generator' = GetSourceFile(generator, path)
    /\ UNCHANGED <<options, lastIndex, artifact, backend, artifactOf, call>>

\* the root generateMockValue call has returned: new Function('faker', ...)
\* defines create<Name>Mock and create<Name>Mocks and hands the latter back;
\* the emitted expression is not evaluated yet.  batch.outcomes lists what
\* one evaluation of it can give.
MockAssemble ==
    /\ backend = "mock"
    /\ status = "returning"
    /\ stack = <<>>
    /\ status' = "done"
    /\ artifact' = ret.value
    /\ artifactOf' = root
    /\ batch' = [NoBatch EXCEPT !.outcomes = Enumerate(Values(ret.value))]
    /\ UNCHANGED <<options, lastIndex, error, calls, root, stack, visited, ret,
                   prop, backend, filePath, message, call,
                   generator>>

(***************************************************************************)
(* generateMockValue, from its first line to its first recursive call or   *)
(* its return: array, string literal, other literal, enum literal, string, *)
(* number, boolean, Date, null, undefined, any, union, cycle guard,        *)
(* Record, object.                                                         *)
(***************************************************************************)
MockAtStart == backend = "mock" /\ status = "compiling" /\ stack # <<>> /\ Top.pc = "start"
MockResuming(pc) == backend = "mock" /\ status = "returning" /\ stack # <<>> /\ Top.pc = pc

\* none of isArray(), isStringLiteral(), isLiteral(), isEnumLiteral()
MockPastKindTests == Types[Top.node].kind \notin {"array", "literal", "enum"}
\* ... and the text is none of those the generator has a branch for
MockPastPrimitives ==
    /\ MockPastKindTests
    /\ ~IsStringText(Types[Top.node].text)
    /\ ~IsMockPrimitiveText(Types[Top.node].text)
\* ... and not isUnion()
MockPastUnion == MockPastPrimitives /\ Types[Top.node].kind # "union"
\* ... and the key is not in visited: visited.add(key) follows
MockGuarded == MockPastUnion /\ ~CycleGuard(visited, Key(Top.node))

\* if (type.isArray()): compile the element type, same depth, no propName
MockCompileArray ==
    /\ MockAtStart
    /\ Types[Top.node].kind = "array"
    /\ Invoke(Append(Rest, Calling(Top, "array", 1, <<>>)),
              Types[Top.node].elem, Top.depth, NoPropName, visited, lastIndex)
    /\ UNCHANGED <<options, calls, root, prop, artifact, backend, filePath, message, artifactOf, batch, call, generator>>

\* const length = options.arrayLength || 2; return `Array.from({ length }, ...)`
MockReturnArray ==
    /\ MockResuming("array")
    /\ Return(Rest, Top, "array", 0, MArray(ArrayLength(options), ret.value),
              visited, lastIndex)
    /\ UNCHANGED <<options, calls, root, prop, artifact, backend, filePath, message, artifactOf, batch, call, generator>>

\* if (type.isStringLiteral()) ... if (type.isLiteral()): the literal value,
\* quoted (the literal types of the file are string literals)
MockCompileLiteral ==
    /\ MockAtStart
    /\ Types[Top.node].kind = "literal"
    /\ Return(Rest, Top, "literal", 0, MLiteral(Types[Top.node].lit), visited, lastIndex)
    /\ UNCHANGED <<options, calls, root, prop, artifact, backend, filePath, message, artifactOf, batch, call, generator>>

\* if (type.isEnumLiteral()) return type.getText()
MockCompileEnumLiteral ==
    /\ MockAtStart
    /\ Types[Top.node].kind = "enum"
    /\ Return(Rest, Top, "enum", 0, MIdentifier(Types[Top.node].text), visited, lastIndex)
    /\ UNCHANGED <<options, calls, root, prop, artifact, backend, filePath, message, artifactOf, batch, call, generator>>

\* if (text === "string")
MockCompileString ==
    /\ MockAtStart
    /\ MockPastKindTests
    /\ IsStringText(Types[Top.node].text)
    /\ Return(Rest, Top, "string", 0, MockString(Top.propName), visited, lastIndex)
    /\ UNCHANGED <<options, calls, root, prop, artifact, backend, filePath, message, artifactOf, batch, call, generator>>

\* if (text === "number") ... if (text === "any")
MockCompilePrimitive ==
    /\ MockAtStart
    /\ MockPastKindTests
    /\ ~IsStringText(Types[Top.node].text)
    /\ IsMockPrimitiveText(Types[Top.node].text)
    /\ Return(Rest, Top, "primitive", 0, MockPrimitive(Types[Top.node].text[1]),
              visited, lastIndex)
    /\ UNCHANGED <<options, calls, root, prop, artifact, backend, filePath, message, artifactOf, batch, call, generator>>

\* if (type.isUnion()): compile the first member, same depth, no propName
MockCompileUnion ==
    /\ MockAtStart
    /\ MockPastPrimitives
    /\ Types[Top.node].kind = "union"
    /\ Invoke(Append(Rest, Calling(Top, "union", 1, <<>>)),
              Types[Top.node].members[1], Top.depth, NoPropName, visited, lastIndex)
    /\ UNCHANGED <<options, calls, root, prop, artifact, backend, filePath, message, artifactOf, batch, call, generator>>

\* the next member, or return `faker.helpers.arrayElement([...])`
MockContinueUnion ==
    /\ MockResuming("union")
    /\ LET acc == Append(Top.acc, ret.value)
           members == Types[Top.node].members
       IN IF Top.idx < Len(members)
          THEN Invoke(Append(Rest, Calling(Top, "union", Top.idx + 1, acc)),
                      members[Top.idx + 1], Top.depth, NoPropName, visited, lastIndex)
          ELSE Return(Rest, Top, "union", 0, MArrayElement(acc), visited, lastIndex)
    /\ UNCHANGED <<options, calls, root, prop, artifact, backend, filePath, message, artifactOf, batch, call, generator>>

\* if (visited.has(key)) return "{}"
MockCycleHit ==
    /\ MockAtStart
    /\ MockPastUnion
    /\ CycleGuard(visited, Key(Top.node))
    /\ Return(Rest, Top, "cycle", 0, EmptyObject, visited, lastIndex)
    /\ UNCHANGED <<options, calls, root, prop, artifact, backend, filePath, message, artifactOf, batch, call, generator>>

\* Record without both type arguments: visited.add(key), visited.delete(key),
\* return "{}"
MockCompileRecordWithoutArguments ==
    /\ MockAtStart
    /\ MockGuarded
    /\ IsRecordAlias(Top.node)
    /\ Len(Types[Top.node].args) < 2
    /\ Return(Rest, Top, "recordWithoutArguments", 0, EmptyObject,
              (visited \cup {Key(Top.node)}) \ {Key(Top.node)}, lastIndex)
    /\ UNCHANGED <<options, calls, root, prop, artifact, backend, filePath, message, artifactOf, batch, call, generator>>

\* Record<K, V>: visited.add(key), compile K at depth + 1
MockCompileRecord ==
    /\ MockAtStart
    /\ MockGuarded
    /\ IsRecordAlias(Top.node)
    /\ Len(Types[Top.node].args) >= 2
    /\ Invoke(Append(Rest, Calling(Top, "record", 1, <<>>)),
              Types[Top.node].args[1], Top.depth + 1, NoPropName,
              visited \cup {Key(Top.node)}, lastIndex)
    /\ UNCHANGED <<options, calls, root, prop, artifact, backend, filePath, message, artifactOf, batch, call, generator>>

\* compile V at depth + 1, then return `Object.fromEntries(Array.from(...))`
\* with options.recordLength || { min: 1, max: 5 }; the key stays in visited
MockContinueRecord ==
    /\ MockResuming("record")
    /\ LET acc == Append(Top.acc, ret.value)
       IN IF Top.idx < 2
          THEN Invoke(Append(Rest, Calling(Top, "record", 2, acc)),
                      Types[Top.node].args[2], Top.depth + 1, NoPropName,
                      visited, lastIndex)
          ELSE Return(Rest, Top, "record", 0,
                      MRecord(RecordLength(options), acc[1], acc[2]),
                      visited, lastIndex)
    /\ UNCHANGED <<options, calls, root, prop, artifact, backend, filePath, message, artifactOf, batch, call, generator>>

\* if (props.length === 0) { visited.delete(key); return "{}" }
MockCompileEmptyObject ==
    /\ MockAtStart
    /\ MockGuarded
    /\ ~IsRecordAlias(Top.node)
    /\ Len(Types[Top.node].props) = 0
    /\ Return(Rest, Top, "emptyObject", 0, EmptyObject,
              (visited \cup {Key(Top.node)}) \ {Key(Top.node)}, lastIndex)
    /\ UNCHANGED <<options, calls, root, prop, artifact, backend, filePath, message, artifactOf, batch, call, generator>>

\* object with properties: visited.add(key); the filtered properties are
\* mapped one after the other, Top.idx being the one the map stands at
MockCompileObject ==
    /\ MockAtStart
    /\ MockGuarded
    /\ ~IsRecordAlias(Top.node)
    /\ Len(Types[Top.node].props) > 0
    /\ stack' = Append(Rest, [Top EXCEPT !.pc = "props", !.idx = 1])
    /\ visited' = visited \cup {Key(Top.node)}
    /\ UNCHANGED <<options, lastIndex, status, error, calls, root, ret, prop,
                   artifact, backend, filePath, message, artifactOf, batch, call, generator>>

\* the map stands at a property of the frame on top
MockAtProperty ==
    /\ backend = "mock"
    /\ status = "compiling"
    /\ stack # <<>>
    /\ Top.pc = "props"
    /\ Top.idx <= Len(FilteredProps(Top.node))

\* optional && Math.random() > (options.optionalPropertyChance || 0.7):
\* Math.random() is called for an optional property only
Omitted(optional, random, opts) == optional /\ random > OptionalPropertyChance(opts)

\* if (optional && Math.random() > ...) return null: the property gets no line
MockSkipProperty(random) ==
    /\ MockAtProperty
    /\ Omitted(FilteredProps(Top.node)[Top.idx].optional, random, options)
    /\ stack' = Append(Rest, [Top EXCEPT !.idx = Top.idx + 1])
    /\ UNCHANGED <<options, lastIndex, status, error, calls, root, visited, ret,
                   prop, artifact, backend, filePath, message, artifactOf, batch, call, generator>>

\* otherwise the type of the property is compiled at depth + 1 with its name
\* as propName
MockCompileProperty(random) ==
    /\ MockAtProperty
    /\ LET p == FilteredProps(Top.node)[Top.idx]
       IN /\ ~Omitted(p.optional, random, options)
          /\ Invoke(Append(Rest, Calling(Top, "object", Top.idx, Top.acc)),
                    p.type, Top.depth + 1, PropName(p.name), visited, lastIndex)
    /\ UNCHANGED <<options, calls, root, prop, artifact, backend, filePath, message, artifactOf, batch, call, generator>>

\* return `${indent}  ${JSON.stringify(propName)}: ${mockValue},`: the line
\* is kept and the map goes on to the next property
MockContinueObject ==
    /\ MockResuming("object")
    /\ LET p == FilteredProps(Top.node)[Top.idx]
           lines == Append(Top.acc, [name |-> p.name, value |-> ret.value])
       IN stack' = Append(Rest, [Top EXCEPT !.pc = "props", !.idx = Top.idx + 1,
                                            !.acc = lines])
    /\ status' = "compiling"
    /\ UNCHANGED <<options, lastIndex, error, calls, root, visited, ret, prop,
                   artifact, backend, filePath, message, artifactOf, batch, call, generator>>

\* the map is over: visited.delete(key); return `{ ...lines }`
MockReturnObject ==
    /\ backend = "mock"
    /\ status = "compiling"
    /\ stack # <<>>
    /\ Top.pc = "props"
    /\ Top.idx > Len(FilteredProps(Top.node))
    /\ Return(Rest, Top, "object", 0, MObject(Top.acc),
              visited \ {Key(Top.node)}, lastIndex)
    /\ UNCHANGED <<options, calls, root, prop, artifact, backend, filePath, message, artifactOf, batch, call, generator>>

(***************************************************************************)
(* The compiled generator: create<Name>Mocks(count = 1) returns            *)
(* Array.from({ length: count }, () => create<Name>Mock())                 *)
(***************************************************************************)
\* count = 1 when no count is passed
CountOrDefault(count) == IF count = <<>> THEN 1 ELSE count[1]

\* the caller calls the generator the last successful call returned:
\* Array.from calls create<Name>Mock count times; each call evaluates the
\* emitted expression, which throws on a free identifier and else gives an
\* instance; the array of the count instances is returned
CreateMocks(count) ==
    /\ backend = "mock"
    /\ status = "done"
    /\ LET n == CountOrDefault(count)
       IN IF n > 0 /\ MockHasFreeIdentifier(artifact)
          THEN batch' = [batch EXCEPT !.phase = "ReferenceError", !.given = count,
                                      !.made = 0, !.last = NoInstance]
          ELSE \E v \in IF n > 0 THEN Values(artifact) ELSE {NoInstance} :
                  batch' = [batch EXCEPT !.phase = "returned", !.given = count,
                                        !.made = n, !.last = v]
    /\ UNCHANGED <<options, lastIndex, status, error, calls, root, stack, visited,
                   ret, prop, artifact, backend, filePath, message, artifactOf, call,
                   generator>>

Next ==
    \/ \E form \in NamedForms, interfaceName \in RequestedNames, path \in FilePaths :
          InterfaceToZod(form, interfaceName, path, path, NoTypeArgument)
    \/ \E form \in CallForms \ NamedForms, path \in FilePaths, scriptName \in FilePaths,
          typeArgument \in CallSiteTypes \cup {NoTypeArgument} :
          InterfaceToZod(form, "SimpleUser", path, scriptName, typeArgument)
    \/ CompileArray
    \/ CompileLiteral
    \/ CompileEnumLiteral
    \/ CompileOverride
    \/ CompileString
    \/ CompilePrimitive
    \/ CompileUnion
    \/ CycleHit
    \/ CompileRecordWithoutArguments
    \/ CompileRecord
    \/ CompileEmptyObject
    \/ CompileObject
    \/ ReturnArray
    \/ ContinueUnion
    \/ ContinueRecord
    \/ ContinueObject
    \/ Assemble
    \/ \E interfaceName \in RequestedNames, path \in FilePaths :
          GenerateMockFunction(interfaceName, path)
    \/ \E interfaceName \in RequestedNames, path \in FilePaths :
          MockInterfaceNotFound(interfaceName, path)
    \/ MockCompileArray
    \/ MockReturnArray
    \/ MockCompileLiteral
    \/ MockCompileEnumLiteral
    \/ MockCompileString
    \/ MockCompilePrimitive
    \/ MockCompileUnion
    \/ MockContinueUnion
    \/ MockCycleHit
    \/ MockCompileRecordWithoutArguments
    \/ MockCompileRecord
    \/ MockContinueRecord
    \/ MockCompileEmptyObject
    \/ MockCompileObject
    \/ \E random \in RandomValues : MockSkipProperty(random)
    \/ \E random \in RandomValues : MockCompileProperty(random)
    \/ MockContinueObject
    \/ MockReturnObject
    \/ MockAssemble
    \/ \E count \in Counts : CreateMocks(count)

Spec == Init /\ [][Next]_vars

(***************************************************************************)
(* A program that uses the generator library and keeps calling the         *)
(* generator it compiled last, with a fair random source: an outcome that  *)
(* stays possible is taken again and again.                                *)
(***************************************************************************)
\* a call of the generator for at least one instance in which the random
\* source gives, for the last instance, the j-th of the possible outcomes
CreateMocksNumber(j) ==
    /\ backend = "mock"
    /\ status = "done"
    /\ j <= Len(batch.outcomes)
    /\ \E count \in {c \in Counts : CountOrDefault(c) > 0} :
          batch' = [batch EXCEPT !.phase = "returned", !.given = count,
                                !.made = CountOrDefault(count),
                                !.last = batch.outcomes[j]]
    /\ UNCHANGED <<options, lastIndex, status, error, calls, root, stack, visited,
                   ret, prop, artifact, backend, filePath, message, artifactOf, call,
                   generator>>

MockInit == backend = "mock" /\ Init

MockNext ==
    \/ \E interfaceName \in RequestedNames, path \in FilePaths :
          GenerateMockFunction(interfaceName, path)
    \/ \E interfaceName \in RequestedNames, path \in FilePaths :
          MockInterfaceNotFound(interfaceName, path)
    \/ MockCompileArray
    \/ MockReturnArray
    \/ MockCompileLiteral
    \/ MockCompileEnumLiteral
    \/ MockCompileString
    \/ MockCompilePrimitive
    \/ MockCompileUnion
    \/ MockContinueUnion
    \/ MockCycleHit
    \/ MockCompileRecordWithoutArguments
    \/ MockCompileRecord
    \/ MockContinueRecord
    \/ MockCompileEmptyObject
    \/ MockCompileObject
    \/ \E random \in RandomValues : MockSkipProperty(random)
    \/ \E random \in RandomValues : MockCompileProperty(random)
    \/ MockContinueObject
    \/ MockReturnObject
    \/ MockAssemble
    \/ \E count \in Counts : CreateMocks(count)

\* once the program has compiled its last generator every outcome stays
\* possible for ever
Fairness == \A j \in 1..MaxOutcomes : WF_vars(CreateMocksNumber(j))

FairSpec == MockInit /\ [][MockNext]_vars /\ Fairness

(***************************************************************************)
(* Properties                                                              *)
(***************************************************************************)
\* a generateZodSchema call has just returned: ret is its return and stack
\* holds its callers
Returned == backend = "zod" /\ status = "returning" /\ ret.via # "none"
\* a generateMockValue call has just returned
MockReturned == backend = "mock" /\ status = "returning" /\ ret.via # "none"
Generators == options.customTypeGenerators
Excluded == {options.excludedSmartDetections[i] :
                i \in 1..Len(options.excludedSmartDetections)}

\* the rules whose pattern accepts the signature of the call that returned,
\* each tried with the lastIndex it had when the call was entered
Accepting ==
    {i \in 1..Len(Generators) :
        PatternTest(Generators[i].pattern, Types[ret.node].text, ret.li0[i]).ok}
FirstAccepting == CHOOSE i \in Accepting : \A j \in Accepting : i <= j

\* the keys of the calls on the stack that have added their key to visited
\* and are still compiling their parts: the active recursion path
PathKeys == {Key(stack[i].node) : i \in {j \in 1..Len(stack) : stack[j].pc \in {"object", "record"}}}

\* C1: every call, whatever the kind of its node, whose signature a
\* customTypeGenerators rule accepts returns the replacement of the first
\* such rule: the override check comes before any kind-specific dispatch.
C1_OverrideBeforeDispatch ==
    (Returned /\ Accepting # {}) =>
        ret.value = Replacement(Generators[FirstAccepting].replacement)

\* C2: a call on an object or mapping type whose signature is on the active
\* recursion path, and which no override rule replaces, returns the
\* empty-object fallback without any recursive call; no type is expanded
\* twice on one path; and every object that is compiled has one line for
\* each of its (unfiltered) properties, in order.
C2_CycleFallback ==
    /\ (/\ Returned
        /\ Types[ret.node].kind \in {"object", "mapping"}
        /\ ret.hit = 0
        /\ Key(ret.node) \in PathKeys)
           => (ret.value = EmptyObject /\ ret.kids = 0)
    /\ \A i, j \in 1..Len(stack) :
          (/\ i < j
           /\ stack[i].pc \in {"object", "record"}
           /\ stack[j].pc \in {"object", "record"})
              => Key(stack[i].node) # Key(stack[j].node)
    /\ (Returned /\ ret.value.k = "z.object") =>
          LET props == FilteredProps(ret.node)
          IN /\ Len(ret.value.fields) = Len(props)
             /\ \A i \in 1..Len(props) : ret.value.fields[i].name = props[i].name

\* C2 witness: TreeNode (next?: TreeNode | undefined; value: number) is
\* compiled with the fallback at the recursion point and both its lines.
C2_Witness ==
    /\ status = "done"
    /\ root = "TreeNode"
    /\ artifact.k = "z.object"
    /\ Len(artifact.fields) = 2
    /\ artifact.fields[1].value =
          ZOptional(ZUnion(<<ZPrimitive("undefined"), EmptyObject>>))
    /\ artifact.fields[2].value = ZPrimitive("number")

\* C3: a root compile call returns for every type graph: no call ends in
\* recursion without bound.
C3_RootCompileReturns == ~(status = "failed" /\ error = "RangeError")

\* C4: every call returns with the visited set it was entered with, and the
\* visited set is empty when a root compilation has returned.
C4_VisitedRestored ==
    /\ Returned => ret.v1 = ret.v0
    /\ status = "done" => visited = {}

\* an object type with properties, or a Record with both type arguments
IsComposite(node) ==
    \/ Types[node].kind = "mapping" /\ Len(Types[node].args) >= 2
    \/ /\ Types[node].kind = "object"
       /\ ~IsRecordAlias(node)
       /\ Len(Types[node].props) > 0

\* C5: a composite type compiles to the empty-object fallback only when its
\* signature is that of an ancestor on the current recursion path: in
\* sibling properties and in later branches it is compiled in full.
C5_PathScopedGuard ==
    (Returned /\ IsComposite(ret.node) /\ ret.value = EmptyObject) =>
        Key(ret.node) \in PathKeys

\* C6: the line of a property marked optional holds an optional wrapper
\* around the compiled node of its type, the line of any other property the
\* compiled node itself, for every kind of type and at every depth.
C6_OptionalWrapping ==
    /\ prop.via # "none" =>
          /\ prop.optional => (prop.out.k = "z.optional" /\ prop.out.of = prop.child)
          /\ ~prop.optional => prop.out = prop.child
    /\ (Returned /\ ret.value.k = "z.object") =>
          \A i \in 1..Len(ret.value.fields) :
             FilteredProps(ret.node)[i].optional
                <=> ret.value.fields[i].value.k = "z.optional"

\* C6 witness: bio?: string of the nested profile object, a union two levels
\* down, is wrapped.
C6_Witness ==
    /\ prop.owner = "Profile"
    /\ prop.name = Names.bio
    /\ prop.optional
    /\ prop.child.k = "z.union"
    /\ prop.out = ZOptional(prop.child)
    /\ Len(stack) >= 1

\* C7 as stated: when an override rule gives the node of an optional
\* property's type, the property's line holds the replacement itself.
C7_ReplacementVerbatim ==
    (prop.via = "override" /\ prop.optional) => prop.out = prop.child

\* C7 amended: when an override rule gives the node of an optional
\* property's type, the property's line holds the optional wrapper around
\* the rule's replacement.
C7_ReplacementWrapped ==
    (prop.via = "override" /\ prop.optional) =>
        prop.out = ZOptional(Replacement(Generators[prop.hit].replacement))

\* C7 witness: opt?: number with a rule for "number".
C7_Witness ==
    /\ prop.via = "override"
    /\ prop.optional
    /\ prop.name = Names.opt
    /\ prop.out = ZOptional(Replacement("z.coerce.number()"))

\* a rule's pattern matches a signature: the string equals it, or the
\* RegExp's source occurs in it
Matches(pattern, text) ==
    IF pattern.type = "string" THEN text = pattern.source
    ELSE includes(text, pattern.source)

\* the rules that match the signature of the call that returned
Matching ==
    {i \in 1..Len(Generators) : Matches(Generators[i].pattern, Types[ret.node].text)}

\* C8: when several rules match the signature of a node that reaches the
\* override check, the call returns the replacement of the first of them in
\* list order.
C8_FirstMatchWins ==
    (/\ Returned
     /\ Types[ret.node].kind \notin {"array", "literal", "enum"}
     /\ Cardinality(Matching) >= 2)
        => ret.value =
              Replacement(Generators[CHOOSE i \in Matching :
                                        \A j \in Matching : i <= j].replacement)

\* a call on the type string that reached the string branch for a property
StringProperty ==
    /\ Returned
    /\ IsStringText(Types[ret.node].text)
    /\ ret.hit = 0
    /\ ret.propName # NoPropName

LowerName == toLowerCase(ret.propName[1])

\* C9: a string property whose name is listed in excludedSmartDetections
\* compiles to the generic string node; one whose name is not listed gets
\* smart detection (email, then url, else the generic node).
C9_ExcludedSmartDetections ==
    StringProperty =>
        IF ret.propName[1] \in Excluded
        THEN ret.value = ZString
        ELSE /\ includes(LowerName, Chars_email) => ret.value = ZEmail
             /\ (~includes(LowerName, Chars_email) /\ includes(LowerName, Chars_url))
                   => ret.value = ZUrl
             /\ (~includes(LowerName, Chars_email) /\ ~includes(LowerName, Chars_url))
                   => ret.value = ZString

\* C9 witness: with profileUrl and name excluded, Contact has Email as an
\* email node and profileUrl as a plain string.
C9_Witness ==
    /\ backend = "zod"
    /\ status = "done"
    /\ root = "Contact"
    /\ Names.profileUrl \in Excluded
    /\ Names.Email \notin Excluded
    /\ artifact.fields[1].value = ZEmail
    /\ artifact.fields[3].value = ZString

\* C10: a string property that is not excluded compiles to the email node
\* when its lower-cased name contains "email", and to the URL node when it
\* contains "url" or "link".
C10_SmartDetection ==
    (StringProperty /\ ret.propName[1] \notin Excluded) =>
        /\ includes(LowerName, Chars_email) => ret.value = ZEmail
        /\ (/\ ~includes(LowerName, Chars_email)
            /\ (includes(LowerName, Chars_url) \/ includes(LowerName, Chars_link)))
              => ret.value = ZUrl

\* the names of the fields of an emitted object node, in order
FieldNames(tree) == [i \in 1..Len(tree.fields) |-> tree.fields[i].name]
\* the names a type declares, in declaration order
DeclaredNames(node) == [i \in 1..Len(Types[node].props) |-> Types[node].props[i].name]

C12_NotFoundError ==
    (calls > 0 /\ root \in RequestedNames \ Interfaces) =>
        /\ status = "failed"
        /\ error = "NotFound"
        /\ message.interface = root
        /\ message.location = filePath[Len(filePath)]
        /\ stack = <<>>
        /\ ret = NoRet
        /\ artifactOf # root

\* C12 witness: the generator library is asked for the type alias Nested as
\* an interface after a successful call.
C12_Witness ==
    /\ backend = "mock"
    /\ calls = 2
    /\ root = "Nested"
    /\ status = "failed"
    /\ filePath = <<"src", "index.test.ts">>
    /\ message = [interface |-> "Nested", location |-> "index.test.ts"]
    /\ artifactOf = "SimpleUser"

\* C13: a call fails only while it resolves the interface (it is not found,
\* or the call site names none), before any compile step: neither the walk
\* nor the evaluation of the emitted code throws.
C13_OnlyResolutionErrors ==
    status = "failed" =>
        (error \in {"NotFound", "CallSite"} /\ stack = <<>> /\ ret = NoRet)

\* C17: when the validator compiles the type it compiled last again, with
\* the same options object, the root call returns the tree it returned then.
C17_Deterministic ==
    (/\ backend = "zod"
     /\ Returned
     /\ stack = <<>>
     /\ artifactOf = root
     /\ call.of = options)
        => ret.value = artifact

\* the names of the fields of a generated object instance
InstanceNames(instance) ==
    {instance.fields[i].name : i \in 1..Len(instance.fields)}
\* the last instance the compiled generator of the root interface made
Made == backend = "mock" /\ batch.made > 0 /\ batch.last.k = "object"
\* the optional properties the root interface declares
OptionalNames ==
    {FilteredProps(root)[i].name :
        i \in {j \in 1..Len(FilteredProps(root)) : FilteredProps(root)[j].optional}}

\* C14: whether an optional property is present is left to generation time:
\* the generator compiled for an object type has a line for every property
\* that passes the filter, the optional ones included, so that no optional
\* property is left out (or put in) for all instances at compile time.
C14_PresenceNotCompiled ==
    (MockReturned /\ ret.via = "object") =>
        FieldNames(ret.value) =
            [i \in 1..Len(FilteredProps(ret.node)) |-> FilteredProps(ret.node)[i].name]

\* C15: with optionalPropertyChance 1.0 every generated instance has every
\* optional property of its interface, with 0.0 it has none of them.
C15_ChanceExtremes ==
    Made =>
        /\ options.optionalPropertyChance = <<100>> =>
              OptionalNames \subseteq InstanceNames(batch.last)
        /\ options.optionalPropertyChance = <<0>> =>
              OptionalNames \cap InstanceNames(batch.last) = {}

\* C16: with arrayLength k >= 0 every array-typed field of a generated
\* instance has k elements (2 when arrayLength is left out), and a call of
\* the generator with count n returns n instances (1 when n is left out).
C16_Lengths ==
    /\ Made =>
          \A i \in 1..Len(batch.last.fields) :
              batch.last.fields[i].value.k = "array" =>
                  Len(batch.last.fields[i].value.items) =
                      IF options.arrayLength = <<>> THEN 2 ELSE options.arrayLength[1]
    /\ (backend = "mock" /\ batch.phase = "returned") =>
          batch.made = (IF batch.given = <<>> THEN 1 ELSE batch.given[1])

\* the leaf of the first keyword the lower-cased name contains, in the order
\* email, url/link, currency, name, phone, address, city, country, id
FirstInPriorityOrder(lowerProp) ==
    CASE includes(lowerProp, Chars_email) -> Faker("internet.email()")
      [] includes(lowerProp, Chars_url) \/ includes(lowerProp, Chars_link) ->
            Faker("internet.url()")
      [] includes(lowerProp, Keywords.currency) -> Faker("finance.currencyCode()")
      [] includes(lowerProp, Chars_name) -> Faker("person.fullName()")
      [] includes(lowerProp, Keywords.phone) -> Faker("phone.number()")
      [] includes(lowerProp, Keywords.address) -> Faker("location.streetAddress()")
      [] includes(lowerProp, Keywords.city) -> Faker("location.city()")
      [] includes(lowerProp, Keywords.country) -> Faker("location.country()")
      [] includes(lowerProp, Chars_id) -> Faker("string.uuid()")
      [] OTHER -> Faker("lorem.word()")

\* C18: in the generator a string property whose lower-cased name contains
\* several keywords gets the leaf of the keyword that is first in the order
\* email, url/link, currency, name, phone, address, city, country, id.
C18_KeywordPriority ==
    (/\ MockReturned
     /\ ret.via = "string"
     /\ Truthy(ret.propName))
        => ret.value = FirstInPriorityOrder(toLowerCase(ret.propName[1]))

\* C19: in both libraries a call on number, boolean, Date, null, undefined,
\* void, any, unknown or never that no override rule replaces returns from
\* the primitive branch with that library's leaf for the type: it makes no
\* recursive call, leaves visited alone and does not return the fallback.
C19_PrimitiveLeaves ==
    (/\ status = "returning"
     /\ ret.via # "none"
     /\ ret.hit = 0
     /\ IsPrimitiveText(Types[ret.node].text))
        => /\ ret.via = "primitive"
           /\ ret.kids = 0
           /\ ret.v1 = ret.v0
           /\ ret.value # EmptyObject
           /\ backend = "zod" => ret.value = ZPrimitive(Types[ret.node].text[1])

\* the values the m-th member of the union compiled for field f can give
MemberValues(f, m) == Values(artifact.fields[f].value.of[m])
\* the program has made its last compilation, of the interface name
Settled(name) ==
    backend = "mock" /\ calls = MaxCalls /\ status = "done" /\ root = name
\* the last instance has in field f a value of the m-th member of its union
Selected(name, f, m) ==
    Made /\ root = name /\ batch.last.fields[f].value \in MemberValues(f, m)

DeclaredString ==
    /\ prop.via # "none"
    /\ \E i \in 1..Len(FilteredProps(prop.owner)) :
          LET p == FilteredProps(prop.owner)[i]
          IN /\ p.name = prop.name
             /\ \/ IsStringText(Types[p.type].text)
                \/ p.optional /\ p.type = "OptString"

\* the string member of an emitted node: the node itself, or the members of
\* a union other than z.undefined()
StringMembers(tree) ==
    IF tree.k = "z.union"
    THEN {tree.of[i] : i \in 1..Len(tree.of)} \ {ZPrimitive("undefined")}
    ELSE {tree}

\* C21: with no override rule configured, every non-excluded property
\* declared with type string whose lower-cased name contains "email" has the
\* email node on its line: the node itself for a required property, an
\* optional wrapper whose inner string member is the email node for an
\* optional one, also when the type is the union of string with undefined.
C21_EmailHintKept ==
    (/\ backend = "zod"
     /\ DeclaredString
     /\ Len(Generators) = 0
     /\ prop.name \notin Excluded
     /\ includes(toLowerCase(prop.name), Chars_email))
        => IF prop.optional
           THEN /\ prop.out.k = "z.optional"
                /\ StringMembers(prop.out.of) = {ZEmail}
           ELSE prop.out = ZEmail

\* C22: in every call form that passes an options object (as the first
\* argument, or as the third after a name or undefined) the compilation
\* works with exactly that object, and the call goes to
\* generateZodSchemaFunction directly, without call-site detection, if and
\* only if both interfaceName and filePath are given.
C22_OptionsApplied ==
    (backend = "zod" /\ call.route # "none") =>
        /\ (/\ call.form.first = "object" \/ call.form.options_
            /\ error # "CallSite")
              => options = call.given
        /\ call.route = "explicit"
              <=> (call.form.first = "string" /\ call.form.filePath)

\* the keys of the singleton's source-file map
Cached == DOMAIN generator.sourceFiles
\* the file loaded first
FirstLoaded == {p \in Cached : generator.sourceFiles[p] = 1}

\* what holds of the singleton after any sequence of entry-point calls
SingletonCache ==
    /\ generator.created <= 1
    /\ generator.project = <<>> <=> generator.created = 0
    /\ generator.project # <<>> =>
          \E p \in FirstLoaded :
             generator.project[1].tsConfigFilePath = FindTsConfig(p)
    /\ Cached = generator.requested
    /\ (status = "failed" /\ error = "NotFound") => filePath \in Cached

\* a step keeps the Project and every entry of the source-file map
EntriesKept ==
    /\ generator.project # <<>> => generator'.project = generator.project
    /\ \A p \in Cached :
          /\ p \in DOMAIN generator'.sourceFiles
          /\ generator'.sourceFiles[p] = generator.sourceFiles[p]

====
